---- MODULE Spec2Model ----
\* Model of the epyp alias engine: the Manager registry (sources, alias
\* groups, aliases), the EP-h5 data source (load / get_df) and the two-pass
\* fetch getAliasedDF (DFProxyGetItemSpy trace, DFProxyAliasing materialize).
EXTENDS Integers, Sequences, FiniteSets, TLC

VARIABLES
    file,        \* content of the h5 file on disk (environment)
    srcObj,      \* DataSourceEPH5 objects, by object id
    sources,     \* Manager._sources : source name -> object id (0 = no key)
    alias_grps,  \* Manager._alias_grps : group name -> AliasGroup (given: a key)
    aliases,     \* Manager._aliases : the Alias objects
    ret          \* outcome of the last call made on the manager

regVars == <<srcObj, sources, alias_grps, aliases>>
vars == <<file, srcObj, sources, alias_grps, aliases, ret>>

----------------------------------------------------------------------------
\* Bounds of the model

MaxAliases == 2      \* Alias objects alive at once
MaxSrcObjs == 1      \* DataSourceEPH5 objects ever constructed
MaxRefs == 2         \* length of an AliasGroup.ref_sources list
StackLimit == 6      \* nested __getitem__ calls the interpreter allows

\* The call-count guard of the spy
CallLimit == 1000

----------------------------------------------------------------------------
\* Names are strings of characters, written as tuples of one-character strings.

nA == <<"A">>
nB == <<"B">>
nL == <<"L">>
nQ == <<"Q">>
nX == <<"X">>
nY == <<"Y">>
nTIME == <<"T", "I", "M", "E">>

SrcNames == {"s1"}
GrpNames == {"g1"}

Min(S) == CHOOSE x \in S : \A y \in S : x <= y

Range(s) == {s[i] : i \in DOMAIN s}

\* python: x not in clean_list / list(set(...)) keep one occurrence of each
RECURSIVE Dedup(_)
Dedup(s) ==
    IF s = <<>> THEN <<>>
    ELSE LET r == Dedup(SubSeq(s, 1, Len(s) - 1)) IN
         IF s[Len(s)] \in Range(r) THEN r ELSE Append(r, s[Len(s)])

----------------------------------------------------------------------------
\* Regular expressions. A pattern is a sequence of tokens: "^", "$", "(",
\* ")", "." and literal characters.

\* re.compile: a pattern with unbalanced parentheses does not compile.
RECURSIVE ParenDepth(_, _)
ParenDepth(regex, i) ==
    IF i = 0 THEN 0
    ELSE LET d == ParenDepth(regex, i - 1) IN
         IF d < 0 THEN d
         ELSE IF regex[i] = "(" THEN d + 1
         ELSE IF regex[i] = ")" THEN d - 1
         ELSE d

re_compile_ok(regex) == ParenDepth(regex, Len(regex)) = 0

\* Matching the tokens from i on against key at position pos. open is the
\* stack of groups not yet closed, grps the groups in opening order, each
\* <<start, end>>. The result is <<matched, grps>>.
RECURSIVE MatchFrom(_, _, _, _, _, _)
MatchFrom(regex, i, key, pos, open, grps) ==
    IF i > Len(regex) THEN <<TRUE, grps>>
    ELSE LET t == regex[i] IN
      CASE t = "^" ->
             IF pos = 1 THEN MatchFrom(regex, i + 1, key, pos, open, grps)
             ELSE <<FALSE, <<>>>>
        [] t = "$" ->
             IF pos = Len(key) + 1
             THEN MatchFrom(regex, i + 1, key, pos, open, grps)
             ELSE <<FALSE, <<>>>>
        [] t = "(" ->
             MatchFrom(regex, i + 1, key, pos,
                       <<Len(grps) + 1>> \o open, Append(grps, <<pos, pos>>))
        [] t = ")" ->
             MatchFrom(regex, i + 1, key, pos, Tail(open),
                       [grps EXCEPT ![Head(open)] = <<@[1], pos>>])
        [] t = "." ->
             IF pos <= Len(key)
             THEN MatchFrom(regex, i + 1, key, pos + 1, open, grps)
             ELSE <<FALSE, <<>>>>
        [] OTHER ->
             IF pos <= Len(key) /\ key[pos] = t
             THEN MatchFrom(regex, i + 1, key, pos + 1, open, grps)
             ELSE <<FALSE, <<>>>>

\* re.search(a.regex, key): the leftmost position the pattern matches at.
\* The result is [found, groups], groups being match.groups().
re_search(regex, key) ==
    LET starts == {s \in 1..(Len(key) + 1) :
                      MatchFrom(regex, 1, key, s, <<>>, <<>>)[1]}
    IN  IF starts = {} THEN [found |-> FALSE, groups |-> <<>>]
        ELSE LET m == MatchFrom(regex, 1, key, Min(starts), <<>>, <<>>)[2]
             IN  [found |-> TRUE,
                  groups |-> [g \in DOMAIN m |->
                                 SubSeq(key, m[g][1], m[g][2] - 1)]]

\* alias_str.format(*grps): "{0}", "{1}" are replaced by the captured
\* groups, every other token is copied.
FieldIndex(t) == IF t = "{0}" THEN 1 ELSE IF t = "{1}" THEN 2 ELSE 0

\* format raises IndexError when a field has no argument
str_format_ok(tmpl, grps) ==
    \A i \in DOMAIN tmpl : FieldIndex(tmpl[i]) <= Len(grps)

RECURSIVE str_format(_, _)
str_format(tmpl, grps) ==
    IF tmpl = <<>> THEN <<>>
    ELSE LET f == FieldIndex(Head(tmpl)) IN
         (IF f = 0 THEN <<Head(tmpl)>> ELSE grps[f])
         \o str_format(Tail(tmpl), grps)

----------------------------------------------------------------------------
\* The h5 file (environment): "missing", unreadable ("bad"), one of three
\* layouts ("v3" stores X before Y), or the first layout without its
\* CalcData/VarValues ("novals").
\* FileStates are the contents the file takes here.

FileStates == {"v1", "v2"}

\* Internal/Symbols of a layout plus the TIME entry _load_data adds:
\* variable name -> column of CalcData/VarValues
Layout(f) ==
    IF f \in {"v1", "novals"} THEN (nTIME :> 13) @@ (nY :> 14) @@ (nX :> 15)
    ELSE IF f = "v2" THEN (nTIME :> 13) @@ (nY :> 14)
    ELSE IF f = "v3" THEN (nTIME :> 13) @@ (nX :> 14) @@ (nY :> 15)
    ELSE <<>>

\* CalcData/VarValues of a layout: column -> values by row
VarValues(f) ==
    IF f = "v1"
    THEN (13 :> <<0, 1, 2>>) @@ (14 :> <<5, 3, 1>>) @@ (15 :> <<1, 2, 3>>)
    ELSE IF f = "v3"
    THEN (13 :> <<0, 1, 2>>) @@ (14 :> <<7, 8, 9>>) @@ (15 :> <<4, 4, 6>>)
    ELSE (13 :> <<0, 1, 2>>) @@ (14 :> <<2, 4, 6>>)

\* hashlib.md5 of the file content: equal contents, equal checksums
md5(f) == f

----------------------------------------------------------------------------
\* Data sources

NoGrp == "None"
NoSum == "None"
NoErr == "None"

\* DataSourceEPH5.__init__ / _DataSource.__init__
DataSourceEPH5(name) ==
    [name |-> name, checksum |-> NoSum, vardict |-> <<>>,
     alias_grp |-> NoGrp, preload_data |-> FALSE]

\* _DataSource._file_update_check : [valid, updated, src]
file_update_check(src, f) ==
    IF f = "missing"
    THEN [valid |-> FALSE, updated |-> FALSE,
          src |-> [src EXCEPT !.checksum = NoSum]]
    ELSE IF md5(f) = src.checksum
    THEN [valid |-> TRUE, updated |-> FALSE, src |-> src]
    ELSE [valid |-> TRUE, updated |-> TRUE,
          src |-> [src EXCEPT !.checksum = md5(f)]]

\* DataSourceEPH5._load_data : [err, src]
load_data(src, f) ==
    IF f = "bad" THEN [err |-> "OSError", src |-> src]
    ELSE IF f = "novals"
    THEN [err |-> "KeyError", src |-> [src EXCEPT !.vardict = Layout(f)]]
    ELSE [err |-> NoErr, src |-> [src EXCEPT !.vardict = Layout(f)]]

\* _DataSource.load : [err, src]
load(src, f) ==
    LET chk == file_update_check(src, f) IN
    IF ~chk.valid
    THEN [err |-> NoErr, src |-> [chk.src EXCEPT !.vardict = <<>>]]
    ELSE IF ~chk.updated THEN [err |-> NoErr, src |-> chk.src]
    ELSE load_data(chk.src, f)

\* the keys of a vardict in dict order: _load_data inserts them by column
RECURSIVE KeysByCol(_, _)
KeysByCol(vardict, todo) ==
    IF todo = {} THEN <<>>
    ELSE LET k == CHOOSE k \in todo : \A j \in todo : vardict[k] <= vardict[j]
         IN  <<k>> \o KeysByCol(vardict, todo \ {k})

vardict_keys(vardict) == KeysByCol(vardict, DOMAIN vardict)

\* _DataSource._clean_var_list : unknown names are logged and left out,
\* repeated names kept once
clean_var_list(src, var_lst) ==
    Dedup(SelectSeq(var_lst, LAMBDA v : v \in DOMAIN src.vardict))

\* DataSourceEPH5._order_var_lst : sorted by storage column
order_var_lst(src, var_lst) ==
    KeysByCol(src.vardict, Range(var_lst))

\* A table is [index, cols]: the row labels and the columns in order, each
\* column a series [name, vals] with vals aligned to index.
NoDF == [index |-> <<>>, cols |-> <<>>]

\* DataSourceEPH5.get_df : [err, src, df]. var_lst is [given, list].
src_get_df(src, f, var_lst) ==
    IF src.preload_data
    THEN [err |-> "NameError", src |-> src, df |-> NoDF]
    ELSE
    LET ld == load(src, f)
        s1 == ld.src
        var_lst_c == IF ~var_lst.given THEN vardict_keys(s1.vardict)
                     ELSE order_var_lst(s1, clean_var_list(s1, var_lst.list))
    IN  IF ld.err # NoErr THEN [err |-> ld.err, src |-> s1, df |-> NoDF]
        ELSE IF f \in {"missing", "bad"}
        THEN [err |-> "OSError", src |-> s1, df |-> NoDF]
        ELSE IF f = "novals"
        THEN [err |-> "KeyError", src |-> s1, df |-> NoDF]
        ELSE [err |-> NoErr, src |-> s1,
              df |-> [index |-> [r \in DOMAIN VarValues(f)[13] |-> r],
                      cols |-> [i \in DOMAIN var_lst_c |->
                                  [name |-> var_lst_c[i],
                                   vals |-> VarValues(f)[s1.vardict[var_lst_c[i]]]]]]]

----------------------------------------------------------------------------
\* Aliases

\* the optional arguments alias_str and alias_fct of Alias / add_alias. A
\* callable is [op, reqs]: it looks up df[r.format(*grps)] for each r of
\* reqs in order and returns the value looked up ("item"), that value * 2
\* ("twice") or the list of the values looked up ("list").
NoStr == [given |-> FALSE, tmpl |-> <<>>]
Str(tmpl) == [given |-> TRUE, tmpl |-> tmpl]
NoFct == [given |-> FALSE, op |-> "item", reqs |-> <<>>]
Fct(op, reqs) == [given |-> TRUE, op |-> op, reqs |-> reqs]

\* Alias.__init__ : [err, alias]
Alias(regex, alias_str, alias_fct) ==
    LET mk(fct) == [err |-> NoErr,
                    alias |-> [regex |-> regex, alias_fct |-> fct,
                               ref_alias_grps |-> <<>>]]
    IN  IF ~re_compile_ok(regex)
        THEN [err |-> "re.error",
              alias |-> [regex |-> regex, alias_fct |-> [op |-> "item", reqs |-> <<>>],
                         ref_alias_grps |-> <<>>]]
        ELSE IF alias_str.given
        THEN mk([op |-> "item", reqs |-> <<alias_str.tmpl>>])
        ELSE IF alias_fct.given
        THEN mk([op |-> alias_fct.op, reqs |-> alias_fct.reqs])
        ELSE [err |-> "ValueError",
              alias |-> [regex |-> regex, alias_fct |-> [op |-> "item", reqs |-> <<>>],
                         ref_alias_grps |-> <<>>]]

\* AliasGroup.__init__
AliasGroup(name) == [name |-> name, aliases |-> <<>>, ref_sources |-> <<>>]

----------------------------------------------------------------------------
\* DFProxyGetItemSpy: the trace pass

\* DFProxyGetItemSpy.__init__ ; als is the list of Alias records
DFProxyGetItemSpy(als, vnames_valid) ==
    [aliases |-> als, aliasing_map |-> <<>>, vnames_used |-> <<>>,
     vnames_valid |-> vnames_valid, N_call |-> 0,
     err |-> NoErr, errkey |-> <<>>]

\* an exception leaving the spy
SpyRaise(spy, err, key) == [spy EXCEPT !.err = err, !.errkey = key]

\* the value the aliasing map holds for a terminal name (None) and for an
\* aliased one ((fct, grps))
MapNone == [terminal |-> TRUE, fct |-> [op |-> "item", reqs |-> <<>>], grps |-> <<>>]
MapAlias(fct, grps) == [terminal |-> FALSE, fct |-> fct, grps |-> grps]

\* first_match with the loop keeping the last alias that matches
first_match_last(als, key, i) ==
    LET M == {k \in i..Len(als) : re_search(als[k].regex, key).found} IN
    IF M = {} THEN 0 ELSE CHOOSE k \in M : \A m \in M : m <= k

\* the loop "for a in self._aliases: match = re.search(a.regex, key)":
\* index of the alias the loop returns from, 0 when it runs to its end
RECURSIVE first_match(_, _, _)
first_match(als, key, i) ==
    IF i > Len(als) THEN 0
    ELSE IF re_search(als[i].regex, key).found THEN i
    ELSE first_match(als, key, i + 1)

\* DFProxyGetItemSpy.__getitem__ (spy_getitem) and the call fct(self, grps)
\* it makes (spy_call). depth counts the nested __getitem__ calls.
RECURSIVE spy_getitem(_, _, _)
RECURSIVE spy_call(_, _, _, _, _)
\* spy_getitem with an aliased name added to vnames_used as well
spy_getitem_alias_used(spy, key, depth) ==
    IF spy.err # NoErr THEN spy
    ELSE IF depth > StackLimit THEN SpyRaise(spy, "RecursionError", key)
    ELSE
    LET s1 == [spy EXCEPT !.N_call = @ + 1] IN
    IF s1.N_call > CallLimit THEN SpyRaise(s1, "ValueError", key)
    ELSE IF key \in DOMAIN s1.aliasing_map THEN s1
    ELSE
    LET i == first_match(s1.aliases, key, 1) IN
    IF i # 0
    THEN LET grps == re_search(s1.aliases[i].regex, key).groups
             fct == s1.aliases[i].alias_fct
             s2 == [s1 EXCEPT !.aliasing_map = (key :> MapAlias(fct, grps)) @@ @,
                              !.vnames_used = Append(@, key)]
         IN  spy_call(s2, fct, grps, 1, depth)
    ELSE IF key \notin s1.vnames_valid THEN SpyRaise(s1, "KeyError", key)
    ELSE [s1 EXCEPT !.aliasing_map = (key :> MapNone) @@ @,
                    !.vnames_used = Append(@, key)]

\* spy_getitem with a known key returned before the call is counted
spy_getitem_counted_late(spy, key, depth) ==
    IF spy.err # NoErr THEN spy
    ELSE IF depth > StackLimit THEN SpyRaise(spy, "RecursionError", key)
    ELSE IF key \in DOMAIN spy.aliasing_map THEN spy
    ELSE
    LET s1 == [spy EXCEPT !.N_call = @ + 1] IN
    IF s1.N_call > CallLimit THEN SpyRaise(s1, "ValueError", key)
    ELSE
    LET i == first_match(s1.aliases, key, 1) IN
    IF i # 0
    THEN LET grps == re_search(s1.aliases[i].regex, key).groups
             fct == s1.aliases[i].alias_fct
             s2 == [s1 EXCEPT !.aliasing_map = (key :> MapAlias(fct, grps)) @@ @]
         IN  spy_call(s2, fct, grps, 1, depth)
    ELSE IF key \notin s1.vnames_valid THEN SpyRaise(s1, "KeyError", key)
    ELSE [s1 EXCEPT !.aliasing_map = (key :> MapNone) @@ @,
                    !.vnames_used = Append(@, key)]

\* spy_getitem without the test "key in self._aliasing_map"
spy_getitem_uncached(spy, key, depth) ==
    IF spy.err # NoErr THEN spy
    ELSE IF depth > StackLimit THEN SpyRaise(spy, "RecursionError", key)
    ELSE
    LET s1 == [spy EXCEPT !.N_call = @ + 1] IN
    IF s1.N_call > CallLimit THEN SpyRaise(s1, "ValueError", key)
    ELSE
    LET i == first_match(s1.aliases, key, 1) IN
    IF i # 0
    THEN LET grps == re_search(s1.aliases[i].regex, key).groups
             fct == s1.aliases[i].alias_fct
             s2 == [s1 EXCEPT !.aliasing_map = (key :> MapAlias(fct, grps)) @@ @]
         IN  spy_call(s2, fct, grps, 1, depth)
    ELSE IF key \notin s1.vnames_valid THEN SpyRaise(s1, "KeyError", key)
    ELSE [s1 EXCEPT !.aliasing_map = (key :> MapNone) @@ @,
                    !.vnames_used = Append(@, key)]

\* spy_getitem with a valid name taken as terminal before the aliases are
\* tried
spy_getitem_valid_first(spy, key, depth) ==
    IF spy.err # NoErr THEN spy
    ELSE IF depth > StackLimit THEN SpyRaise(spy, "RecursionError", key)
    ELSE
    LET s1 == [spy EXCEPT !.N_call = @ + 1] IN
    IF s1.N_call > CallLimit THEN SpyRaise(s1, "ValueError", key)
    ELSE IF key \in DOMAIN s1.aliasing_map THEN s1
    ELSE IF key \in s1.vnames_valid
    THEN [s1 EXCEPT !.aliasing_map = (key :> MapNone) @@ @,
                    !.vnames_used = Append(@, key)]
    ELSE
    LET i == first_match(s1.aliases, key, 1) IN
    IF i # 0
    THEN LET grps == re_search(s1.aliases[i].regex, key).groups
             fct == s1.aliases[i].alias_fct
             s2 == [s1 EXCEPT !.aliasing_map = (key :> MapAlias(fct, grps)) @@ @]
         IN  spy_call(s2, fct, grps, 1, depth)
    ELSE SpyRaise(s1, "KeyError", key)

spy_getitem(spy, key, depth) ==
    IF spy.err # NoErr THEN spy
    ELSE IF depth > StackLimit THEN SpyRaise(spy, "RecursionError", key)
    ELSE
    LET s1 == [spy EXCEPT !.N_call = @ + 1] IN
    IF s1.N_call > CallLimit THEN SpyRaise(s1, "ValueError", key)
    ELSE IF key \in DOMAIN s1.aliasing_map THEN s1
    ELSE
    LET i == first_match(s1.aliases, key, 1) IN
    IF i # 0
    THEN LET grps == re_search(s1.aliases[i].regex, key).groups
             fct == s1.aliases[i].alias_fct
             s2 == [s1 EXCEPT !.aliasing_map = (key :> MapAlias(fct, grps)) @@ @]
         IN  spy_call(s2, fct, grps, 1, depth)
    ELSE IF key \notin s1.vnames_valid THEN SpyRaise(s1, "KeyError", key)
    ELSE [s1 EXCEPT !.aliasing_map = (key :> MapNone) @@ @,
                    !.vnames_used = Append(@, key)]

spy_call(spy, fct, grps, j, depth) ==
    IF spy.err # NoErr \/ j > Len(fct.reqs) THEN spy
    ELSE IF ~str_format_ok(fct.reqs[j], grps)
    THEN SpyRaise(spy, "IndexError", fct.reqs[j])
    ELSE spy_call(spy_getitem(spy, str_format(fct.reqs[j], grps), depth + 1),
                  fct, grps, j + 1, depth)

\* the spy object once the caller has caught the exception it raised
SpyCaught(spy) == [spy EXCEPT !.err = NoErr, !.errkey = <<>>]

\* DFProxyGetItemSpy.reset
reset(spy) ==
    [spy EXCEPT !.N_call = 0, !.aliasing_map = <<>>, !.vnames_used = <<>>]

\* DFProxyGetItemSpy.reset_vnames_used
reset_vnames_used(spy) == [spy EXCEPT !.vnames_used = <<>>]

----------------------------------------------------------------------------
\* DFProxyAliasing: the materialize pass

\* What a lookup gives: err/site/errkey when it raised (site is the mapping
\* whose [] raised a KeyError), else the value: items is the series when
\* isList is false and the elements of the list when it is true; nested
\* says that an element of the list is itself a list. log is every key
\* looked up so far.
PxOk(isList, items, nested, log) ==
    [err |-> NoErr, site |-> "", errkey |-> <<>>, isList |-> isList,
     items |-> items, nested |-> nested, log |-> log]
PxRaise(err, site, key, log) ==
    [err |-> err, site |-> site, errkey |-> key, isList |-> FALSE,
     items |-> <<>>, nested |-> FALSE, log |-> log]

HasCol(df, key) == \E c \in DOMAIN df.cols : df.cols[c].name = key
Col(df, key) == df.cols[CHOOSE c \in DOMAIN df.cols : df.cols[c].name = key]

\* series * 2 ; list * 2
Twice(r) ==
    IF r.isList THEN [r EXCEPT !.items = @ \o @]
    ELSE [r EXCEPT !.items = <<[name |-> @[1].name,
                                vals |-> [k \in DOMAIN @[1].vals |-> 2 * @[1].vals[k]]]>>]

\* DFProxyAliasing.__getitem__ (proxy_getitem) and the call fct(self, grps)
\* it makes (proxy_call), acc being the values looked up so far.
RECURSIVE proxy_getitem(_, _, _, _, _)
RECURSIVE proxy_call(_, _, _, _, _, _, _, _)
proxy_getitem(df, amap, key, depth, log) ==
    LET lg == Append(log, key) IN
    IF depth > StackLimit THEN PxRaise("RecursionError", "", key, lg)
    ELSE IF key \notin DOMAIN amap THEN PxRaise("KeyError", "aliasing_map", key, lg)
    ELSE IF amap[key].terminal
    THEN IF HasCol(df, key) THEN PxOk(FALSE, <<Col(df, key)>>, FALSE, lg)
         ELSE PxRaise("KeyError", "df", key, lg)
    ELSE proxy_call(df, amap, amap[key].fct, amap[key].grps, 1, depth,
                    PxOk(TRUE, <<>>, FALSE, lg), lg)

proxy_call(df, amap, fct, grps, j, depth, acc, log) ==
    IF j > Len(fct.reqs) THEN acc
    ELSE IF ~str_format_ok(fct.reqs[j], grps)
    THEN PxRaise("IndexError", "", fct.reqs[j], log)
    ELSE
    LET r == proxy_getitem(df, amap, str_format(fct.reqs[j], grps), depth + 1, log) IN
    IF r.err # NoErr THEN r
    ELSE IF fct.op = "item" THEN r
    ELSE IF fct.op = "twice" THEN Twice(r)
    ELSE proxy_call(df, amap, fct, grps, j + 1, depth,
                    PxOk(TRUE, acc.items \o (IF r.isList THEN <<>> ELSE r.items),
                         acc.nested \/ r.isList, r.log), r.log)

----------------------------------------------------------------------------
\* getAliasedDF

\* df.loc[mask] and df.iloc[lo:hi] : the rows at the positions pos, in order
TakeRows(df, pos) ==
    [index |-> [k \in DOMAIN pos |-> df.index[pos[k]]],
     cols |-> [c \in DOMAIN df.cols |->
                 [name |-> df.cols[c].name,
                  vals |-> [k \in DOMAIN pos |-> df.cols[c].vals[pos[k]]]]]]

RECURSIVE TruePositions(_, _)
TruePositions(mask, k) ==
    IF k > Len(mask) THEN <<>>
    ELSE (IF mask[k] THEN <<k>> ELSE <<>>) \o TruePositions(mask, k + 1)

\* df_loc with the mask left unused
df_loc_all(df, mask) == df

df_loc(df, mask) == TakeRows(df, TruePositions(mask, 1))

\* iloc is [given, lo, hi], the slice lo:hi with 0 <= lo <= hi
df_iloc(df, iloc) ==
    LET n == Len(df.index)
        hi == IF iloc.hi < n THEN iloc.hi ELSE n
    IN  IF ~iloc.given THEN df
        ELSE TakeRows(df, [k \in 1..(IF hi > iloc.lo THEN hi - iloc.lo ELSE 0) |->
                              iloc.lo + k])

\* the loop "for vname in vnames: _ = spy[vname]"
RECURSIVE spy_all(_, _, _)
spy_all(spy, vnames, i) ==
    IF i > Len(vnames) THEN spy
    ELSE spy_all(spy_getitem(spy, vnames[i], 1), vnames, i + 1)

\* the loop "for vname in vnames: out = df_proxy[vname] ..." ; acc holds
\* series_out in items
RECURSIVE series_out(_, _, _, _, _)
series_out(df, amap, vnames, i, acc) ==
    IF i > Len(vnames) THEN acc
    ELSE LET r == proxy_getitem(df, amap, vnames[i], 1, acc.log) IN
         IF r.err # NoErr THEN r
         ELSE series_out(df, amap, vnames, i + 1,
                PxOk(TRUE,
                     acc.items \o (IF r.isList THEN r.items
                                   ELSE <<[name |-> vnames[i], vals |-> r.items[1].vals]>>),
                     acc.nested \/ (r.isList /\ r.nested), r.log))

\* what a call of getAliasedDF leaves behind
Outcome(err, site, errkey, path, src, spy, passed, fetched, df_used, log, mask, df) ==
    [err |-> err, site |-> site, errkey |-> errkey, path |-> path, src |-> src,
     N_call |-> spy.N_call, aliasing_map |-> spy.aliasing_map,
     passed |-> passed, fetched |-> fetched, df_used |-> df_used,
     log |-> log, mask |-> mask, df |-> df]

\* "handling cases without aliases": the branch taken when vnames is None or
\* the source has no alias of its own; spy is the spy after loc(spy)
no_alias_case(source, f, spy, vnames, loc, iloc) ==
    LET vn == IF vnames.given /\ vnames.list # <<>> THEN vnames.list
              ELSE vardict_keys(source.vardict)
        g == src_get_df(source, f, [given |-> TRUE, list |-> vn])
    IN  IF loc.given
        THEN Outcome("NameError", "", <<"s", "r", "c">>, "fast", source, spy,
                     <<>>, FALSE, NoDF, <<>>, <<>>, NoDF)
        ELSE IF g.err # NoErr
        THEN Outcome(g.err, "source", <<>>, "fast", g.src, spy,
                     vn, TRUE, NoDF, <<>>, <<>>, NoDF)
        ELSE Outcome(NoErr, "", <<>>, "fast", g.src, spy,
                     vn, TRUE, g.df, <<>>, <<>>, df_iloc(g.df, iloc))

\* "if loc is not None: df = df.loc[loc(df_proxy)]" then the slice; df is
\* the concatenated table, m the value of loc(df_proxy)
loc_case(g, spy, vnames_used, df, m, loc, iloc) ==
    IF m.err # NoErr
    THEN Outcome(m.err, m.site, m.errkey, "aliased", g.src, spy,
                 vnames_used, TRUE, g.df, m.log, <<>>, NoDF)
    ELSE IF m.isList
    THEN Outcome("TypeError", "loc", loc.req, "aliased", g.src, spy,
                 vnames_used, TRUE, g.df, m.log, <<>>, NoDF)
    ELSE
    LET mask == [k \in DOMAIN m.items[1].vals |-> m.items[1].vals[k] > loc.thresh]
    IN  Outcome(NoErr, "", <<>>, "aliased", g.src, spy,
                vnames_used, TRUE, g.df, m.log, mask,
                df_iloc(df_loc(df, mask), iloc))

\* "df = pd.concat(series_out, axis=1)" and what follows; so is the outcome
\* of the loop that fills series_out
concat_case(g, spy, vnames_used, so, loc, iloc) ==
    IF so.err # NoErr
    THEN Outcome(so.err, so.site, so.errkey, "aliased", g.src, spy,
                 vnames_used, TRUE, g.df, so.log, <<>>, NoDF)
    ELSE IF so.items = <<>>
    THEN \* pd.concat of an empty list
         Outcome("ValueError", "concat", <<>>, "aliased", g.src, spy,
                 vnames_used, TRUE, g.df, so.log, <<>>, NoDF)
    ELSE IF so.nested
    THEN Outcome("TypeError", "concat", <<>>, "aliased", g.src, spy,
                 vnames_used, TRUE, g.df, so.log, <<>>, NoDF)
    ELSE IF ~loc.given
    THEN Outcome(NoErr, "", <<>>, "aliased", g.src, spy,
                 vnames_used, TRUE, g.df, so.log, <<>>,
                 df_iloc([index |-> g.df.index, cols |-> so.items], iloc))
    ELSE loc_case(g, spy, vnames_used,
                  [index |-> g.df.index, cols |-> so.items],
                  proxy_getitem(g.df, spy.aliasing_map, loc.req, 1, so.log),
                  loc, iloc)

\* "df_proxy = DFProxyAliasing(source.get_df(vnames_used), ...)" and what
\* follows; g is the outcome of source.get_df(vnames_used)
proxy_case(g, spy, vnames_used, vnames, loc, iloc) ==
    IF g.err # NoErr
    THEN Outcome(g.err, "source", <<>>, "aliased", g.src, spy,
                 vnames_used, TRUE, NoDF, <<>>, <<>>, NoDF)
    ELSE concat_case(g, spy, vnames_used,
                     series_out(g.df, spy.aliasing_map, vnames.list, 1,
                                PxOk(TRUE, <<>>, FALSE, <<>>)),
                     loc, iloc)

\* "generic case with aliases", from the end of the loop over vnames; spy
\* is the spy after that loop. vnames_loc is the spy's own list object, so
\* it holds what the loop over vnames appended as well
used_case(source, f, spy, vnames_used, vnames, loc, iloc) ==
    proxy_case(src_get_df(source, f, [given |-> TRUE, list |-> vnames_used]),
               spy, vnames_used, vnames, loc, iloc)

alias_case(source, f, spy, vnames, loc, iloc) ==
    IF spy.err # NoErr
    THEN Outcome(spy.err, "spy", spy.errkey, "trace", source, spy,
                 <<>>, FALSE, NoDF, <<>>, <<>>, NoDF)
    ELSE used_case(source, f, spy,
                   Dedup((IF loc.given THEN spy.vnames_used ELSE <<>>)
                         \o spy.vnames_used),
                   vnames, loc, iloc)

\* getAliasedDF from "vnames_loc = loc(spy)" on; spy is the spy after it
traced_case(source, f, alias_flag, spy, vnames, loc, iloc) ==
    IF spy.err # NoErr
    THEN Outcome(spy.err, "spy", spy.errkey, "trace", source, spy,
                 <<>>, FALSE, NoDF, <<>>, <<>>, NoDF)
    ELSE IF ~vnames.given \/ ~alias_flag
    THEN no_alias_case(source, f, spy, vnames, loc, iloc)
    ELSE alias_case(source, f, spy_all(spy, vnames.list, 1), vnames, loc, iloc)

\* the spy getAliasedDF builds, after loc(spy) when a filter is given
spy_loc(als, vnames_valid, loc) ==
    IF loc.given
    THEN spy_getitem(DFProxyGetItemSpy(als, vnames_valid), loc.req, 1)
    ELSE DFProxyGetItemSpy(als, vnames_valid)

\* getAliasedDF(source, vnames, loc, iloc). f is the file on disk, grp the
\* source's alias group as [given, aliases] with aliases the Alias records;
\* vnames is [given, list], loc is [given, req, thresh] for the predicate
\* lambda df: df[req] > thresh, iloc is [given, lo, hi].
getAliasedDF(source, f, grp, vnames, loc, iloc) ==
    traced_case(source, f, grp.given /\ grp.aliases # <<>>,
                spy_loc(IF grp.given THEN grp.aliases ELSE <<>>,
                        DOMAIN source.vardict, loc),
                vnames, loc, iloc)

----------------------------------------------------------------------------
\* Manager. The registry is handled as a record R of the four attributes
\* [srcObj, sources, alias_grps, aliases]; a method gives [err, R].

Registry == [srcObj |-> srcObj, sources |-> sources,
             alias_grps |-> alias_grps, aliases |-> aliases]

NoGroup == [given |-> FALSE, aliases |-> <<>>, ref_sources |-> <<>>]

\* self._sources[name], 0 for a KeyError
SourceId(R, name) == IF name \in DOMAIN R.sources THEN R.sources[name] ELSE 0

\* Manager.set_alias_grp : the loop over assigned_srcs, from index i
RECURSIVE set_alias_grp_from(_, _, _, _)
set_alias_grp_from(R, name, assigned_srcs, i) ==
    IF i > Len(assigned_srcs) THEN R
    ELSE LET sid == SourceId(R, assigned_srcs[i]) IN
         set_alias_grp_from(
            IF sid = 0 THEN R
            ELSE [R EXCEPT !.srcObj[sid].alias_grp = name,
                           !.alias_grps[name].ref_sources = Append(@, sid)],
            name, assigned_srcs, i + 1)

\* Manager.set_alias_grp
set_alias_grp(R, name, assigned_srcs) ==
    IF ~R.alias_grps[name].given THEN [err |-> NoErr, R |-> R]
    ELSE [err |-> NoErr, R |-> set_alias_grp_from(R, name, assigned_srcs, 1)]

\* Manager.del_alias_grp : on a registered name the loop over ref_sources
\* runs, then "alias_grp.aliases" raises NameError
del_alias_grp(R, name) ==
    IF ~R.alias_grps[name].given THEN [err |-> NoErr, R |-> R]
    ELSE [err |-> "NameError",
          R |-> [R EXCEPT !.srcObj =
                    [sid \in DOMAIN @ |->
                        IF sid \in Range(R.alias_grps[name].ref_sources)
                        THEN [@[sid] EXCEPT !.alias_grp = NoGrp]
                        ELSE @[sid]]]]

\* Manager.add_alias_grp
add_alias_grp(R, name, assigned_srcs) ==
    LET d == del_alias_grp(R, name) IN
    IF d.err # NoErr THEN d
    ELSE set_alias_grp(
            [d.R EXCEPT !.alias_grps[name] =
                [given |-> TRUE, aliases |-> AliasGroup(name).aliases,
                 ref_sources |-> AliasGroup(name).ref_sources]],
            name, assigned_srcs)

\* Manager.add_source_EP_h5 ; alias_grp_name is NoGrp for None
add_source_EP_h5(R, f, name, alias_grp_name) ==
    LET ld == load(DataSourceEPH5(name), f)
        sid == Len(R.srcObj) + 1
        R1 == [R EXCEPT !.srcObj = Append(@, ld.src), !.sources[name] = sid]
    IN  IF ld.err # NoErr THEN [err |-> ld.err, R |-> R1]
        ELSE IF alias_grp_name = NoGrp THEN [err |-> NoErr, R |-> R1]
        ELSE IF R1.alias_grps[alias_grp_name].given
        THEN set_alias_grp(R1, alias_grp_name, <<name>>)
        ELSE add_alias_grp(R1, alias_grp_name, <<name>>)

\* Manager.del_source : src.ref_alias_grps is no attribute of a source
del_source(R, name) ==
    IF SourceId(R, name) = 0 THEN [err |-> NoErr, R |-> R]
    ELSE [err |-> "AttributeError", R |-> R]

\* An Alias object is known by its place in Manager._aliases, where it is
\* from its construction to its del_alias: AliasGroup.aliases holds places.

\* Manager.add_alias : the loop over assigned_alias_grps, from index i
RECURSIVE add_alias_from(_, _, _, _)
\* add_alias_from without "a.ref_alias_grps.append(ag)"
add_alias_from_no_backref(R, k, assigned_alias_grps, i) ==
    IF i > Len(assigned_alias_grps) THEN R
    ELSE LET ag_name == assigned_alias_grps[i] IN
         add_alias_from(
            IF ag_name \notin DOMAIN R.alias_grps \/ ~R.alias_grps[ag_name].given
            THEN R
            ELSE [R EXCEPT !.alias_grps[ag_name].aliases = Append(@, k)],
            k, assigned_alias_grps, i + 1)

add_alias_from(R, k, assigned_alias_grps, i) ==
    IF i > Len(assigned_alias_grps) THEN R
    ELSE LET ag_name == assigned_alias_grps[i] IN
         add_alias_from(
            IF ag_name \notin DOMAIN R.alias_grps \/ ~R.alias_grps[ag_name].given
            THEN R
            ELSE [R EXCEPT !.alias_grps[ag_name].aliases = Append(@, k),
                           !.aliases[k].ref_alias_grps = Append(@, ag_name)],
            k, assigned_alias_grps, i + 1)

\* add_alias with the alias stored before its construction is checked
add_alias_stored_first(R, regex, alias_str, alias_fct, assigned_alias_grps) ==
    LET a == Alias(regex, alias_str, alias_fct)
        R1 == [R EXCEPT !.aliases = Append(@, a.alias)]
    IN  IF a.err # NoErr THEN [err |-> a.err, R |-> R1]
        ELSE [err |-> NoErr,
              R |-> add_alias_from(R1, Len(R1.aliases), assigned_alias_grps, 1)]

\* Manager.add_alias
add_alias(R, regex, alias_str, alias_fct, assigned_alias_grps) ==
    LET a == Alias(regex, alias_str, alias_fct) IN
    IF a.err # NoErr THEN [err |-> a.err, R |-> R]
    ELSE LET R1 == [R EXCEPT !.aliases = Append(@, a.alias)]
         IN  [err |-> NoErr,
              R |-> add_alias_from(R1, Len(R1.aliases), assigned_alias_grps, 1)]

\* list.remove(x) : the first occurrence goes
RemoveFirst(s, x) ==
    LET k == Min({i \in DOMAIN s : s[i] = x}) IN
    SubSeq(s, 1, k - 1) \o SubSeq(s, k + 1, Len(s))

\* Manager.del_alias : the loop over a.ref_alias_grps, from index j
RECURSIVE del_alias_from(_, _, _, _)
del_alias_from(R, k, ref_alias_grps, j) ==
    IF j > Len(ref_alias_grps) THEN [err |-> NoErr, R |-> R]
    ELSE IF k \notin Range(R.alias_grps[ref_alias_grps[j]].aliases)
    THEN [err |-> "ValueError", R |-> R]
    ELSE del_alias_from(
            [R EXCEPT !.alias_grps[ref_alias_grps[j]].aliases = RemoveFirst(@, k)],
            k, ref_alias_grps, j + 1)

\* "del self._aliases[i]" : the aliases after place k move one place down
DelPlace(R, k) ==
    [R EXCEPT !.aliases = SubSeq(@, 1, k - 1) \o SubSeq(@, k + 1, Len(@)),
              !.alias_grps = [g \in DOMAIN @ |->
                    [@[g] EXCEPT !.aliases =
                        [n \in DOMAIN @ |-> IF @[n] > k THEN @[n] - 1 ELSE @[n]]]]]

\* Manager.del_alias ; i is a list index from 0
del_alias(R, i) ==
    IF i + 1 > Len(R.aliases) THEN [err |-> "IndexError", R |-> R]
    ELSE LET d == del_alias_from(R, i + 1, R.aliases[i + 1].ref_alias_grps, 1)
         IN  IF d.err # NoErr THEN d
             ELSE [err |-> NoErr, R |-> DelPlace(d.R, i + 1)]

\* the Alias records of a source's alias group, as getAliasedDF reads them
\* through source.alias_grp
GroupOf(R, src) ==
    IF src.alias_grp = NoGrp THEN [given |-> FALSE, aliases |-> <<>>]
    ELSE [given |-> TRUE,
          aliases |-> [k \in DOMAIN R.alias_grps[src.alias_grp].aliases |->
                         R.aliases[R.alias_grps[src.alias_grp].aliases[k]]]]

----------------------------------------------------------------------------
\* Arguments the calls are made with

\* add_alias(regex, alias_str, alias_fct): B := A * 2, A := X, a name
\* holding "A" := itself, A := B, L := [Y, X], a pattern that does not
\* compile, and a call giving neither alias_str nor alias_fct
AliasArgs ==
    { <<<<"^", "B", "$">>, NoStr, Fct("twice", <<nA>>)>>,
      <<<<"^", "A", "$">>, Str(nX), NoFct>>,
      <<<<"(", "A", ")">>, Str(<<"{0}">>), NoFct>>,
      <<<<"^", "A", "$">>, Str(nB), NoFct>>,
      <<<<"^", "L", "$">>, NoStr, Fct("list", <<nY, nX>>)>>,
      <<<<"(", "A">>, Str(nX), NoFct>>,
      <<<<"^", "A", "$">>, NoStr, NoFct>> }

AssignArgs == {<<>>, <<"g1">>}

SrcListArgs == {<<>>, <<"s1">>}

NoList == [given |-> FALSE, list |-> <<>>]
List(l) == [given |-> TRUE, list |-> l]

NoLoc == [given |-> FALSE, req |-> <<>>, thresh |-> 0]
Loc(req, thresh) == [given |-> TRUE, req |-> req, thresh |-> thresh]

NoIloc == [given |-> FALSE, lo |-> 0, hi |-> 0]
Iloc(lo, hi) == [given |-> TRUE, lo |-> lo, hi |-> hi]

\* get_df(vnames, [name], loc, iloc): <<vnames, loc, iloc>>
GetDfArgs ==
    { <<NoList, NoLoc, NoIloc>>,
      <<NoList, Loc(nY, 2), NoIloc>>,
      <<List(<<>>), NoLoc, NoIloc>>,
      <<List(<<nA>>), NoLoc, NoIloc>>,
      <<List(<<nB, nA>>), NoLoc, NoIloc>>,
      <<List(<<nY>>), Loc(nB, 2), NoIloc>>,
      <<List(<<nY>>), Loc(nB, 2), Iloc(0, 1)>>,
      <<List(<<nY>>), Loc(nY, 2), Iloc(0, 1)>>,
      <<List(<<nX, nY>>), NoLoc, NoIloc>>,
      <<List(<<nX, nY>>), NoLoc, Iloc(0, 1)>>,
      <<List(<<nX, nY>>), Loc(nY, 2), NoIloc>>,
      <<List(<<nX, nQ>>), NoLoc, NoIloc>>,
      <<List(<<nL, nX>>), NoLoc, NoIloc>> }

----------------------------------------------------------------------------
\* The state machine

Init ==
    /\ file \in FileStates
    /\ srcObj = <<>>
    /\ sources = [n \in SrcNames |-> 0]
    /\ alias_grps = [g \in GrpNames |-> NoGroup]
    /\ aliases = <<>>
    /\ ret = [op |-> "init"]

WithinBounds(R) ==
    /\ Len(R.srcObj) <= MaxSrcObjs
    /\ Len(R.aliases) <= MaxAliases
    /\ \A g \in GrpNames : Len(R.alias_grps[g].ref_sources) <= MaxRefs

\* the registry after a call
Becomes(R) ==
    /\ WithinBounds(R)
    /\ srcObj' = R.srcObj
    /\ sources' = R.sources
    /\ alias_grps' = R.alias_grps
    /\ aliases' = R.aliases

\* the file is written, replaced or removed from outside
FileChange(f) ==
    /\ f # file
    /\ file' = f
    /\ ret' = [op |-> "file_change"]
    /\ UNCHANGED regVars

CallAddSource(name, alias_grp_name) ==
    LET r == add_source_EP_h5(Registry, file, name, alias_grp_name) IN
    /\ Becomes(r.R)
    /\ ret' = [op |-> "add_source_EP_h5", err |-> r.err]
    /\ UNCHANGED file

CallDelSource(name) ==
    LET r == del_source(Registry, name) IN
    /\ Becomes(r.R)
    /\ ret' = [op |-> "del_source", err |-> r.err]
    /\ UNCHANGED file

CallSetAliasGrp(name, assigned_srcs) ==
    LET r == set_alias_grp(Registry, name, assigned_srcs) IN
    /\ Becomes(r.R)
    /\ ret' = [op |-> "set_alias_grp", err |-> r.err]
    /\ UNCHANGED file

CallDelAliasGrp(name) ==
    LET r == del_alias_grp(Registry, name) IN
    /\ Becomes(r.R)
    /\ ret' = [op |-> "del_alias_grp", err |-> r.err]
    /\ UNCHANGED file

CallAddAliasGrp(name, assigned_srcs) ==
    LET r == add_alias_grp(Registry, name, assigned_srcs) IN
    /\ Becomes(r.R)
    /\ ret' = [op |-> "add_alias_grp", err |-> r.err,
               arg |-> [name |-> name, assigned_srcs |-> assigned_srcs,
                        registered |-> alias_grps[name].given]]
    /\ UNCHANGED file

CallAddAlias(a, assigned_alias_grps) ==
    LET r == add_alias(Registry, a[1], a[2], a[3], assigned_alias_grps) IN
    /\ Becomes(r.R)
    /\ ret' = [op |-> "add_alias", err |-> r.err]
    /\ UNCHANGED file

CallDelAlias(i) ==
    LET r == del_alias(Registry, i) IN
    /\ Becomes(r.R)
    /\ ret' = [op |-> "del_alias", err |-> r.err]
    /\ UNCHANGED file

\* Manager.get_df(vnames, [name], loc, iloc)
CallGetDf(name, vnames, loc, iloc) ==
    LET sid == SourceId(Registry, name) IN
    IF sid = 0
    THEN /\ ret' = [op |-> "get_df", err |-> NoErr,
                    arg |-> [name |-> name, vnames |-> vnames, loc |-> loc,
                             iloc |-> iloc, found |-> FALSE]]
         /\ UNCHANGED <<file, regVars>>
    ELSE \E out \in {getAliasedDF(srcObj[sid], file, GroupOf(Registry, srcObj[sid]),
                                  vnames, loc, iloc)} :
             /\ srcObj' = [srcObj EXCEPT ![sid] = out.src]
             /\ ret' = [op |-> "get_df", err |-> out.err,
                        arg |-> [name |-> name, vnames |-> vnames, loc |-> loc,
                                 iloc |-> iloc, found |-> TRUE,
                                 vnames_valid |-> DOMAIN srcObj[sid].vardict],
                        out |-> out]
             /\ UNCHANGED <<file, sources, alias_grps, aliases>>

Next ==
    \/ \E f \in FileStates : FileChange(f)
    \/ \E n \in SrcNames, g \in GrpNames \cup {NoGrp} : CallAddSource(n, g)
    \/ \E n \in SrcNames : CallDelSource(n)
    \/ \E g \in GrpNames, l \in SrcListArgs : CallSetAliasGrp(g, l)
    \/ \E g \in GrpNames : CallDelAliasGrp(g)
    \/ \E g \in GrpNames, l \in SrcListArgs : CallAddAliasGrp(g, l)
    \/ \E a \in AliasArgs, l \in AssignArgs : CallAddAlias(a, l)
    \/ \E i \in 0..(MaxAliases - 1) : CallDelAlias(i)
    \/ \E n \in SrcNames, a \in GetDfArgs : CallGetDf(n, a[1], a[2], a[3])

Spec == Init /\ [][Next]_vars

----------------------------------------------------------------------------
\* The registry alone, with one source name and two group names: the calls
\* that bind sources to groups (BindSpec) and those that bind aliases to
\* groups (AliasSpec).

MaxRegSrcObjs == 2   \* DataSourceEPH5 objects ever constructed
MaxRegAliases == 3   \* Alias objects alive at once

RegGrpNames == {"g1", "g2"}

\* add_alias(regex, alias_str, alias_fct): A := X, B := A * 2
RegAliasArgs ==
    { <<<<"^", "A", "$">>, Str(nX), NoFct>>,
      <<<<"^", "B", "$">>, NoStr, Fct("twice", <<nA>>)>> }

RegAssignArgs == {<<>>, <<"g1">>, <<"g1", "g1">>, <<"g2", "g1">>}

RegInit ==
    /\ file = "v1"
    /\ srcObj = <<>>
    /\ sources = [n \in SrcNames |-> 0]
    /\ alias_grps = [g \in RegGrpNames |-> NoGroup]
    /\ aliases = <<>>
    /\ ret = [op |-> "init"]

\* the registry after a call
RegBecomes(R) ==
    /\ Len(R.srcObj) <= MaxRegSrcObjs
    /\ Len(R.aliases) <= MaxRegAliases
    /\ \A g \in RegGrpNames : Len(R.alias_grps[g].ref_sources) <= MaxRefs
    /\ srcObj' = R.srcObj
    /\ sources' = R.sources
    /\ alias_grps' = R.alias_grps
    /\ aliases' = R.aliases
    /\ UNCHANGED file

RegAddSource(name, alias_grp_name) ==
    /\ RegBecomes(add_source_EP_h5(Registry, file, name, alias_grp_name).R)
    /\ ret' = [op |-> "add_source_EP_h5",
               err |-> add_source_EP_h5(Registry, file, name, alias_grp_name).err]

RegSetAliasGrp(name, assigned_srcs) ==
    /\ RegBecomes(set_alias_grp(Registry, name, assigned_srcs).R)
    /\ ret' = [op |-> "set_alias_grp",
               err |-> set_alias_grp(Registry, name, assigned_srcs).err]

RegAddAliasGrp(name, assigned_srcs) ==
    /\ RegBecomes(add_alias_grp(Registry, name, assigned_srcs).R)
    /\ ret' = [op |-> "add_alias_grp",
               err |-> add_alias_grp(Registry, name, assigned_srcs).err]

RegAddAlias(a, assigned_alias_grps) ==
    /\ RegBecomes(add_alias(Registry, a[1], a[2], a[3], assigned_alias_grps).R)
    /\ ret' = [op |-> "add_alias",
               err |-> add_alias(Registry, a[1], a[2], a[3], assigned_alias_grps).err]

\* del_alias(i) ; refs is a.ref_alias_grps of the alias at i before the call
RegDelAlias(i) ==
    /\ RegBecomes(del_alias(Registry, i).R)
    /\ ret' = [op |-> "del_alias", err |-> del_alias(Registry, i).err, i |-> i,
               refs |-> IF i < Len(aliases) THEN aliases[i + 1].ref_alias_grps
                        ELSE <<>>]

\* sources and groups
BindNext ==
    \/ \E n \in SrcNames, g \in RegGrpNames \cup {NoGrp} : RegAddSource(n, g)
    \/ \E g \in RegGrpNames, l \in SrcListArgs : RegSetAliasGrp(g, l)
    \/ \E g \in RegGrpNames, l \in SrcListArgs : RegAddAliasGrp(g, l)

BindSpec == RegInit /\ [][BindNext]_vars

\* groups and aliases
AliasNext ==
    \/ \E g \in RegGrpNames, l \in SrcListArgs : RegAddAliasGrp(g, l)
    \/ \E a \in RegAliasArgs, l \in RegAssignArgs : RegAddAlias(a, l)
    \/ \E i \in 0..(MaxRegAliases - 1) : RegDelAlias(i)

AliasSpec == RegInit /\ [][AliasNext]_vars

----------------------------------------------------------------------------
\* One data source and its file: the file is written, made unreadable or
\* removed from outside, and the source is loaded (load) and read (get_df)
\* again and again.

LoadFileStates == {"v1", "v2", "v3", "novals", "bad", "missing"}

\* get_df(var_lst)
LoadVarLists ==
    {NoList, List(<<>>), List(<<nY>>), List(<<nX, nY>>), List(<<nY, nQ, nY>>)}

\* what load logs: the branch it takes
load_report(src, f) ==
    IF ~file_update_check(src, f).valid THEN "file unvalid"
    ELSE IF ~file_update_check(src, f).updated THEN "file unchanged"
    ELSE "new file/updated file"

LoadInit ==
    /\ file \in LoadFileStates
    /\ srcObj = <<DataSourceEPH5("s1")>>
    /\ sources = [n \in SrcNames |-> 1]
    /\ alias_grps = [g \in GrpNames |-> NoGroup]
    /\ aliases = <<>>
    /\ ret = [op |-> "init"]

LoadFileChange(f) ==
    /\ f # file
    /\ file' = f
    /\ ret' = [op |-> "file_change"]
    /\ UNCHANGED regVars

\* source.load()
CallLoad ==
    /\ srcObj' = [srcObj EXCEPT ![1] = load(@, file).src]
    /\ ret' = [op |-> "load", err |-> load(srcObj[1], file).err,
               report |-> load_report(srcObj[1], file)]
    /\ UNCHANGED <<file, sources, alias_grps, aliases>>

\* source.get_df(var_lst)
CallSrcGetDf(var_lst) ==
    /\ srcObj' = [srcObj EXCEPT ![1] = src_get_df(@, file, var_lst).src]
    /\ ret' = [op |-> "src_get_df", arg |-> var_lst,
               err |-> src_get_df(srcObj[1], file, var_lst).err,
               df |-> src_get_df(srcObj[1], file, var_lst).df]
    /\ UNCHANGED <<file, sources, alias_grps, aliases>>

LoadNext ==
    \/ \E f \in LoadFileStates : LoadFileChange(f)
    \/ CallLoad
    \/ \E l \in LoadVarLists : CallSrcGetDf(l)

LoadSpec == LoadInit /\ [][LoadNext]_vars

----------------------------------------------------------------------------
\* One DFProxyGetItemSpy object in use: the spy getAliasedDF builds for a
\* source bound to a group, looked up name after name as the loops
\* "_ = loc(spy)" and "for vname in vnames: _ = spy[vname]" do, and reset
\* through its two reset methods. ret holds the spy object.

\* lookups made once the counter is at CallLimit or beyond
MaxOver == 2

\* the registry of a new Manager
NewManager ==
    [srcObj |-> <<>>, sources |-> [n \in SrcNames |-> 0],
     alias_grps |-> [g \in GrpNames |-> NoGroup], aliases |-> <<>>]

\* add_alias(regex, alias_str, alias_fct, ["g1"]) for each element of l
RECURSIVE add_aliases(_, _, _)
add_aliases(R, l, i) ==
    IF i > Len(l) THEN R
    ELSE add_aliases(add_alias(R, l[i][1], l[i][2], l[i][3], <<"g1">>).R, l, i + 1)

\* the alias lists of the group: B := A * 2 and A := X; a name holding "A"
\* := itself; X := Y and A := B
SpyAliasArgs ==
    { << <<<<"^", "B", "$">>, NoStr, Fct("twice", <<nA>>)>>,
         <<<<"^", "A", "$">>, Str(nX), NoFct>> >>,
      << <<<<"(", "A", ")">>, Str(<<"{0}">>), NoFct>> >>,
      << <<<<"^", "X", "$">>, Str(nY), NoFct>>,
         <<<<"^", "A", "$">>, Str(nB), NoFct>> >> }

\* the names looked up
SpyKeys == {nA, nB, nX, nY}

\* the registry after add_source_EP_h5("s1", file, "g1") and the add_alias
\* calls of l
SpyRegistry(f, l) ==
    add_aliases(add_source_EP_h5(NewManager, f, "s1", "g1").R, l, 1)

\* the spy of getAliasedDF(source) : DFProxyGetItemSpy(aliases, vnames_valid)
SpyOf(R, source) ==
    DFProxyGetItemSpy(GroupOf(R, source).aliases, DOMAIN source.vardict)

SpyInit ==
    /\ file = "v1"
    /\ \E l \in SpyAliasArgs :
          /\ srcObj = SpyRegistry(file, l).srcObj
          /\ sources = SpyRegistry(file, l).sources
          /\ alias_grps = SpyRegistry(file, l).alias_grps
          /\ aliases = SpyRegistry(file, l).aliases
    /\ ret = [op |-> "spy", key |-> <<>>, cached |-> FALSE,
              reset_called |-> FALSE, spy |-> SpyOf(Registry, srcObj[1])]

\* spy[key], an exception of the call before having been caught
SpyGetItem(key) ==
    /\ ret.spy.N_call < CallLimit + MaxOver
    /\ ret' = [op |-> "spy_getitem", key |-> key,
               cached |-> key \in DOMAIN ret.spy.aliasing_map,
               reset_called |-> ret.reset_called,
               spy |-> spy_getitem(SpyCaught(ret.spy), key, 1)]
    /\ UNCHANGED <<file, regVars>>

SpyReset ==
    /\ ret' = [op |-> "reset", key |-> <<>>,
               dirty |-> ret.spy.aliasing_map # <<>>,
               reset_called |-> TRUE, spy |-> reset(SpyCaught(ret.spy))]
    /\ UNCHANGED <<file, regVars>>

SpyResetVnamesUsed ==
    /\ ret' = [op |-> "reset_vnames_used", key |-> <<>>,
               dirty |-> ret.spy.aliasing_map # <<>>,
               reset_called |-> TRUE,
               spy |-> reset_vnames_used(SpyCaught(ret.spy))]
    /\ UNCHANGED <<file, regVars>>

SpyNext ==
    \/ \E key \in SpyKeys : SpyGetItem(key)
    \/ SpyReset
    \/ SpyResetVnamesUsed

SpySpec == SpyInit /\ [][SpyNext]_vars

----------------------------------------------------------------------------
\* What the properties are stated with

\* the last call was a get_df on a registered source
Fetched == ret.op = "get_df" /\ ret.arg.found

\* the aliases of the alias group of the source the last get_df was on
FetchAliases == GroupOf(Registry, srcObj[sources[ret.arg.name]]).aliases

\* the places of the aliases whose pattern matches key, and the first one
MatchSet(als, key) == {i \in DOMAIN als : re_search(als[i].regex, key).found}
FirstIdx(als, key) == IF MatchSet(als, key) = {} THEN 0 ELSE Min(MatchSet(als, key))

\* the names the transform of key's alias requests
Requests(als, key) ==
    LET i == FirstIdx(als, key) IN
    IF i = 0 THEN <<>>
    ELSE [j \in DOMAIN als[i].alias_fct.reqs |->
             str_format(als[i].alias_fct.reqs[j], re_search(als[i].regex, key).groups)]

\* the names reachable from S by following alias transforms, and the
\* terminal ones among them
RECURSIVE Closure(_, _)
Closure(als, S) ==
    LET S2 == S \cup UNION {Range(Requests(als, n)) : n \in S} IN
    IF S2 = S THEN S ELSE Closure(als, S2)

Terminals(als, S) == {n \in Closure(als, S) : FirstIdx(als, n) = 0}

\* key's transform requests key again, directly or through a second alias
Cyclic(als, key) ==
    \/ key \in Range(Requests(als, key))
    \/ \E m \in Range(Requests(als, key)) : key \in Range(Requests(als, m))

\* the names the last get_df resolves: the requested ones and the one the
\* filter predicate reads
Roots ==
    (IF ret.arg.vnames.given THEN Range(ret.arg.vnames.list) ELSE {})
    \cup (IF ret.arg.loc.given THEN {ret.arg.loc.req} ELSE {})

ColNames(df) == [c \in DOMAIN df.cols |-> df.cols[c].name]

\* the columns a requested name stands for: the elements of the list for a
\* list-valued alias, else the name itself
Expand(als, n) ==
    LET i == FirstIdx(als, n) IN
    IF i # 0 /\ als[i].alias_fct.op = "list" THEN Requests(als, n) ELSE <<n>>

RECURSIVE ExpandAll(_, _)
ExpandAll(als, names) ==
    IF names = <<>> THEN <<>>
    ELSE Expand(als, Head(names)) \o ExpandAll(als, Tail(names))

\* the values a single-valued name stands for over the file f, read through
\* the aliases als, at most fuel aliases deep
RECURSIVE Denote(_, _, _, _)
Denote(als, f, n, fuel) ==
    LET i == FirstIdx(als, n) IN
    IF i = 0 \/ fuel = 0 THEN VarValues(f)[Layout(f)[n]]
    ELSE LET v == Denote(als, f, Requests(als, n)[1], fuel - 1) IN
         IF als[i].alias_fct.op = "twice" THEN [k \in DOMAIN v |-> 2 * v[k]] ELSE v

\* the row labels left by the filter and then the slice
RowsKept(als, f, loc, iloc) ==
    LET v == Denote(als, f, loc.req, Len(als))
        kept == TruePositions([k \in DOMAIN v |-> v[k] > loc.thresh], 1)
    IN  IF ~iloc.given THEN kept
        ELSE SubSeq(kept, iloc.lo + 1, IF iloc.hi < Len(kept) THEN iloc.hi ELSE Len(kept))

----------------------------------------------------------------------------
\* Properties

\* C1: a get_df whose first requested name is an alias that requests its
\* own name, directly or through a cycle of two aliases, ends with the
\* error of the spy's call-count guard.
C1_CycleEndsInGuardError ==
    (/\ Fetched /\ ret.arg.vnames.given /\ ~ret.arg.loc.given
     /\ ret.arg.vnames.list # <<>>
     /\ Cyclic(FetchAliases, ret.arg.vnames.list[1]))
    => (ret.err = "ValueError" /\ ret.out.site = "spy")

\* C2: a get_df that requests a name matching no alias of the group and not
\* among the source's valid names fails with a KeyError naming such a name,
\* with aliases and without.
C2_UnknownNameRaises ==
    (Fetched /\ ret.arg.vnames.given) =>
        LET U == {n \in Range(ret.arg.vnames.list) :
                     FirstIdx(FetchAliases, n) = 0 /\ n \notin ret.arg.vnames_valid}
        IN  U # {} => (ret.err = "KeyError" /\ ret.out.errkey \in U)

\* C3: add_alias_grp on a registered name returns normally and leaves the
\* name bound to a new group; no source and no alias refers to the old one.
C3_ReRegisterReplaces ==
    (ret.op = "add_alias_grp" /\ ret.arg.registered) =>
        /\ ret.err = NoErr
        /\ alias_grps[ret.arg.name].given
        /\ alias_grps[ret.arg.name].aliases = <<>>
        /\ \A sid \in DOMAIN srcObj :
              srcObj[sid].alias_grp = ret.arg.name
                 => sid \in Range(alias_grps[ret.arg.name].ref_sources)
        /\ \A k \in DOMAIN aliases : ret.arg.name \notin Range(aliases[k].ref_alias_grps)

\* C4: in a get_df with aliases, the names given to the source's get_df are
\* exactly the terminal names reachable from the requested names and the
\* filter's name through the alias transforms.
C4_FetchesReachableTerminals ==
    (Fetched /\ ret.out.path = "aliased") =>
        Range(ret.out.passed) = Terminals(FetchAliases, Roots)

C4_Witness ==
    /\ Fetched /\ ret.out.path = "aliased" /\ ret.err = NoErr
    /\ ret.arg.vnames.list = <<nB, nA>>
    /\ FirstIdx(FetchAliases, nB) # 0 /\ FirstIdx(FetchAliases, nA) # 0
    /\ ret.out.passed = <<nX>>

\* C5: the entry the trace pass records for a name is the transform and the
\* captured groups of the first alias, in the group's order, whose pattern
\* matches the name, and the terminal entry when none matches.
C5_FirstMatchRecorded ==
    Fetched =>
        \A k \in DOMAIN ret.out.aliasing_map :
            LET e == ret.out.aliasing_map[k]
                i == FirstIdx(FetchAliases, k)
            IN  IF i = 0 THEN e.terminal
                ELSE /\ ~e.terminal
                     /\ e.fct = FetchAliases[i].alias_fct
                     /\ e.grps = re_search(FetchAliases[i].regex, k).groups

C5_Witness ==
    /\ Fetched
    /\ \E k \in DOMAIN ret.out.aliasing_map :
          /\ Cardinality(MatchSet(FetchAliases, k)) = 2
          /\ FetchAliases[1].alias_fct # FetchAliases[2].alias_fct

\* C6: in a get_df whose trace pass ended without error, the materialize
\* pass looks up only keys of the aliasing map and reads only terminal
\* columns the fetched table has; no KeyError comes from either lookup.
C6_MaterializeWithinTrace ==
    (Fetched /\ ret.out.path = "aliased") =>
        /\ ~(ret.err = "KeyError" /\ ret.out.site \in {"aliasing_map", "df"})
        /\ \A i \in DOMAIN ret.out.log :
              /\ ret.out.log[i] \in DOMAIN ret.out.aliasing_map
              /\ ret.out.aliasing_map[ret.out.log[i]].terminal
                    => HasCol(ret.out.df_used, ret.out.log[i])

\* C7: a get_df with aliases whose filter reads a name that is not
\* requested fetches the terminal names that name depends on, keeps the rows
\* the filter selects (then the slice), and returns the columns of the
\* requested names only.
C7_FilterOnlyDependency ==
    (/\ Fetched /\ ret.err = NoErr /\ ret.out.path = "aliased"
     /\ ret.arg.loc.given /\ ret.arg.loc.req \notin Range(ret.arg.vnames.list))
    => /\ Terminals(FetchAliases, {ret.arg.loc.req})
            \subseteq Range(ColNames(ret.out.df_used))
       /\ ret.out.df.index = RowsKept(FetchAliases, file, ret.arg.loc, ret.arg.iloc)
       /\ ColNames(ret.out.df) = ExpandAll(FetchAliases, ret.arg.vnames.list)

C7_Witness ==
    /\ Fetched /\ ret.err = NoErr /\ ret.out.path = "aliased"
    /\ ret.arg.loc.given /\ ret.arg.loc.req = nB
    /\ ret.arg.vnames.list = <<nY>>
    /\ ~ret.arg.iloc.given
    /\ ret.out.df.index = <<2, 3>>
    /\ ColNames(ret.out.df_used) = <<nY, nX>>

\* C8: a get_df given a list of names returns its columns in the order of
\* the names, a list-valued name standing for its columns, with aliases and
\* without.
C8_ColumnsInRequestOrder ==
    (/\ Fetched /\ ret.err = NoErr
     /\ ret.arg.vnames.given /\ ret.arg.vnames.list # <<>>
     /\ ret.out.path = "fast"
           => Range(ret.arg.vnames.list) \subseteq DOMAIN ret.out.src.vardict)
    => ColNames(ret.out.df) = ExpandAll(FetchAliases, ret.arg.vnames.list)

\* C9: a get_df on a source with no alias group, or with a group without
\* aliases, or without names, returns a table, also with a filter.
C9_NoAliasCaseReturnsTable ==
    (/\ Fetched
     /\ ~ret.arg.vnames.given \/ FetchAliases = <<>>
     /\ ret.arg.loc.given =>
            ret.arg.loc.req \in ret.arg.vnames_valid
               /\ FirstIdx(FetchAliases, ret.arg.loc.req) = 0
     /\ ret.arg.vnames.given =>
            Range(ret.arg.vnames.list) \subseteq ret.arg.vnames_valid)
    => ret.err = NoErr

\* C10: an add_alias that raises (a pattern that does not compile, or
\* neither alias_str nor alias_fct) leaves Manager._aliases and every
\* group's alias list as they were.
C10_RejectedAliasNotStored ==
    [][(ret'.op = "add_alias" /\ ret'.err # NoErr)
          => (aliases' = aliases /\ alias_grps' = alias_grps)]_vars

C10_Witness ==
    /\ ret.op = "add_alias" /\ ret.err = "re.error"
    /\ aliases # <<>>
    /\ alias_grps["g1"].given

\* C11: two consecutive get_df calls on the same source with the same
\* arguments, nothing else happening in between, give the same aliasing
\* map, pass the same set of names to the source's get_df and return the
\* same column sequence.
C11_RepeatedFetchSame ==
    [][(/\ Fetched /\ ret'.op = "get_df" /\ ret'.arg.found
        /\ ret'.arg.name = ret.arg.name /\ ret'.arg.vnames = ret.arg.vnames
        /\ ret'.arg.loc = ret.arg.loc /\ ret'.arg.iloc = ret.arg.iloc)
       => /\ ret'.out.aliasing_map = ret.out.aliasing_map
          /\ ret'.out.fetched = ret.out.fetched
          /\ Range(ret'.out.passed) = Range(ret.out.passed)
          /\ ColNames(ret'.out.df) = ColNames(ret.out.df)]_vars

\* the spy of the session as it was constructed
FreshSpy == SpyOf(Registry, srcObj[1])

\* the number of lookups the resolution of key alone makes
ChainCalls(key) == spy_getitem(FreshSpy, key, 1).N_call

\* the lists of names resolved after a reset
SpyLists == {<<k>> : k \in SpyKeys} \cup {<<nX, nB>>, <<nB, nY>>}

\* C12: in a session no reset was called on (the session of one get_df), a
\* lookup ends with the error of the call-count guard only if the
\* resolution of the name looked up makes more than CallLimit lookups by
\* itself.
C12_GuardOnlyOnLongChain ==
    (/\ ret.op = "spy_getitem" /\ ~ret.reset_called
     /\ ret.spy.err = "ValueError")
    => ChainCalls(ret.key) > CallLimit

\* C13: every lookup, of a known name as well, counts itself before it does
\* anything else; it raises the guard's error exactly when the count has
\* gone past CallLimit, and a lookup made with the count at CallLimit or
\* beyond changes neither the aliasing map nor vnames_used.
C13_CountedFirst ==
    [][ret'.op = "spy_getitem" =>
          /\ ret'.spy.N_call > ret.spy.N_call
          /\ ret'.cached => ret'.spy.N_call = ret.spy.N_call + 1
          /\ (ret'.spy.err = "ValueError") <=> (ret'.spy.N_call > CallLimit)
          /\ ret.spy.N_call >= CallLimit =>
                /\ ret'.spy.N_call = ret.spy.N_call + 1
                /\ ret'.spy.aliasing_map = ret.spy.aliasing_map
                /\ ret'.spy.vnames_used = ret.spy.vnames_used]_vars

C13_Witness ==
    /\ ret.op = "spy_getitem" /\ ret.cached
    /\ ret.spy.err = "ValueError" /\ ret.spy.N_call = CallLimit + 1
    /\ ret.spy.vnames_used # <<>>

\* C14: a lookup of a name that is a key of the aliasing map only counts
\* itself: no alias is tried and no transform is called; and no lookup and
\* no reset_vnames_used changes or removes an entry of the aliasing map.
C14_ResolvedOnce ==
    [][ret'.op \in {"spy_getitem", "reset_vnames_used"} =>
          /\ \A k \in DOMAIN ret.spy.aliasing_map :
                /\ k \in DOMAIN ret'.spy.aliasing_map
                /\ ret'.spy.aliasing_map[k] = ret.spy.aliasing_map[k]
          /\ (ret'.op = "spy_getitem" /\ ret'.cached /\ ret.spy.N_call < CallLimit)
                => ret'.spy = [SpyCaught(ret.spy) EXCEPT !.N_call = @ + 1]]_vars

C14_Witness ==
    /\ ret.op = "spy_getitem" /\ ret.cached /\ ret.spy.err = NoErr
    /\ ret.key = nB
    /\ ~ret.spy.aliasing_map[nB].terminal
    /\ ret.spy.aliasing_map[nB].fct.reqs = <<nA>>
    /\ ret.spy.N_call = 4

\* C15: in a session no reset was called on, vnames_used holds, each once,
\* the keys of the aliasing map whose entry is None; each of them is a valid
\* name that matches no alias of the group.
C15_TerminalsAreUsed ==
    (ret.op \in {"spy", "spy_getitem"} /\ ~ret.reset_called) =>
        /\ \A i, j \in DOMAIN ret.spy.vnames_used :
              ret.spy.vnames_used[i] = ret.spy.vnames_used[j] => i = j
        /\ Range(ret.spy.vnames_used) =
              {k \in DOMAIN ret.spy.aliasing_map : ret.spy.aliasing_map[k].terminal}
        /\ \A n \in Range(ret.spy.vnames_used) :
              n \in ret.spy.vnames_valid /\ MatchSet(ret.spy.aliases, n) = {}

C15_Witness ==
    /\ ret.op = "spy_getitem" /\ ~ret.reset_called /\ ret.spy.err = NoErr
    /\ ret.key = nX /\ nX \in ret.spy.vnames_valid
    /\ ~ret.spy.aliasing_map[nX].terminal
    /\ ret.spy.vnames_used = <<nY>>

\* C16: after reset() and after reset_vnames_used(), resolving a list of
\* names gives the aliasing map and the set of terminal names that
\* a new spy with the same aliases and valid names gives.
C16_AnyResetIsFresh ==
    ret.op \in {"reset", "reset_vnames_used"} =>
        \A l \in SpyLists :
            /\ spy_all(ret.spy, l, 1).aliasing_map = spy_all(FreshSpy, l, 1).aliasing_map
            /\ Range(spy_all(ret.spy, l, 1).vnames_used)
                  = Range(spy_all(FreshSpy, l, 1).vnames_used)

\* What does hold of the two methods: after reset() a list of names is
\* resolved as a new spy with the same aliases and valid names resolves it;
\* reset_vnames_used() empties vnames_used only and keeps the aliasing map
\* and the call count.
ResetIsFresh ==
    /\ ret.op = "reset" =>
          \A l \in SpyLists :
              /\ spy_all(ret.spy, l, 1).aliasing_map = spy_all(FreshSpy, l, 1).aliasing_map
              /\ spy_all(ret.spy, l, 1).vnames_used = spy_all(FreshSpy, l, 1).vnames_used
              /\ spy_all(ret.spy, l, 1).err = spy_all(FreshSpy, l, 1).err
    /\ (ret.op = "reset_vnames_used" /\ ret.dirty) =>
          /\ ret.spy.vnames_used = <<>>
          /\ ret.spy.aliasing_map # <<>>
          /\ ret.spy.N_call > 0

\* C17: a get_df given a filter and a slice, once the names are traced,
\* returns the rows the filter selects cut by the slice (the filter first,
\* the slice last), with aliases and without.
C17_FilterThenSlice ==
    (/\ Fetched /\ ret.arg.loc.given /\ ret.arg.iloc.given
     /\ ret.out.path \in {"fast", "aliased"}
     /\ ret.out.path = "aliased" => ret.err = NoErr)
    => /\ ret.err = NoErr
       /\ ret.out.df.index = RowsKept(FetchAliases, file, ret.arg.loc, ret.arg.iloc)

\* C18: an add_alias_grp on a registered name never leaves the old group
\* registered and listing a source whose alias_grp it has set to None.
C18_ReRegisterAtomic ==
    (ret.op = "add_alias_grp" /\ ret.arg.registered) =>
        ~ \E sid \in Range(alias_grps[ret.arg.name].ref_sources) :
              srcObj[sid].alias_grp = NoGrp

\* the number of places of the list s that hold x
Count(s, x) == Cardinality({i \in DOMAIN s : s[i] = x})

\* C19: after any sequence of add_source_EP_h5, add_alias_grp and
\* set_alias_grp calls, a registered source is once in ref_sources of the
\* group that is its alias_grp and not at all in that of another group.
C19_BindingsConsistent ==
    \A n \in SrcNames : \A g \in RegGrpNames :
        sources[n] # 0 =>
            Count(alias_grps[g].ref_sources, sources[n])
               = (IF srcObj[sources[n]].alias_grp = g THEN 1 ELSE 0)

\* an alias is as many times in a group's list as the group is in the
\* alias's ref_alias_grps
AliasRefsConsistent ==
    \A k \in DOMAIN aliases : \A g \in DOMAIN alias_grps :
        Count(alias_grps[g].aliases, k) = Count(aliases[k].ref_alias_grps, g)

\* the list s of places without place k, the places beyond k being one less
\* once the alias at k has left Manager._aliases
PlacesWithout(s, k) ==
    LET t == SelectSeq(s, LAMBDA x : x # k) IN
    [n \in DOMAIN t |-> IF t[n] > k THEN t[n] - 1 ELSE t[n]]

\* C20: after any sequence of add_alias and del_alias calls the references
\* between aliases and groups agree in number; a del_alias(i) takes the
\* alias out of every group's list and leaves the other aliases of every
\* list in the order they had.
C20_AliasRefsKept ==
    [][/\ AliasRefsConsistent'
       /\ (ret'.op = "del_alias" /\ ret'.err = NoErr) =>
             /\ aliases' = SubSeq(aliases, 1, ret'.i)
                              \o SubSeq(aliases, ret'.i + 2, Len(aliases))
             /\ \A g \in DOMAIN alias_grps :
                   alias_grps'[g].aliases
                      = PlacesWithout(alias_grps[g].aliases, ret'.i + 1)]_vars

C20_Witness ==
    /\ ret.op = "del_alias" /\ ret.err = NoErr /\ ret.i = 0
    /\ ret.refs = <<"g1", "g1">>
    /\ alias_grps["g1"].aliases = <<1, 2>>
    /\ aliases[1].regex # aliases[2].regex

\* C21: when load() returns normally and the file is there, the checksum
\* stored is that of the file and the variable dictionary stored is the one
\* read from that file; when the file is missing, load() leaves neither a
\* checksum nor a variable dictionary.
C21_LoadedDataIsCurrent ==
    (ret.op = "load" /\ ret.err = NoErr) =>
        IF file = "missing"
        THEN srcObj[1].checksum = NoSum /\ srcObj[1].vardict = <<>>
        ELSE srcObj[1].checksum = md5(file) /\ srcObj[1].vardict = Layout(file)

====
